---- MODULE Spec2Model ----
(***************************************************************************)
(* A model of simple-rpc: the server's connection engine (ServeConn,       *)
(* serveCodec, readRequest, handleRequest, sendResponse), service          *)
(* registration (Register) and the heartbeat registry (putServer,          *)
(* aliveServers).                                                          *)
(*                                                                         *)
(* Strings the code takes apart or orders (ServiceMethod, service and      *)
(* method names, error texts, addresses) are sequences of characters, so   *)
(* the empty string is << >>.  An error text the server composes is        *)
(* << prefix, argument >>.                                                 *)
(***************************************************************************)
EXTENDS Integers, Sequences, FiniteSets, TLC

VARIABLES
    \* ---- one connection served by Server.ServeConn / Server.serveCodec
    opt,        \* the Option record the client sent
    reqs,       \* the (Header, Body) pairs the client sent after the Option
    over,       \* what the Option's json decoder took beyond the Option
    rpos,       \* number of stream items taken from the connection
    lpc,        \* position of the serveCodec read loop
    cur,        \* request the read loop has in hand (0: none)
    hdr,        \* Seq and ServiceMethod of each Header object
    hErr,       \* Error of each Header object (req.h.Error)
    mpc,        \* position of each handleRequest task
    gpc,        \* position of each handleRequest's inner goroutine
    gerr,       \* err returned by req.svc.call in the inner goroutine
    timer,      \* the time.After(timeout) timer of each handleRequest
    sending,    \* owner of the sending mutex
    wg,         \* the WaitGroup counter
    wire,       \* what cc.Write has put on the connection, in order
    numCalls,   \* methodType.numCalls of each registered method
    crashed,    \* the server dereferenced a nil *methodType
    hdrFailed,  \* readRequestHeader has returned an error
    \* ---- Server.Register
    serviceMap, \* Server.serviceMap: service name -> service
    regpc,      \* position of each Register call
    regRcv,     \* receiver each Register call was given
    regRes,     \* error each Register call returned
    \* ---- registry.SimpleRegistry
    timeout,    \* SimpleRegistry.timeout
    servers,    \* SimpleRegistry.servers: addr -> ServerItem.start
    now,        \* time.Now()
    lastBeat,   \* time of the latest putServer of each address (-1: never)
    lastOp,     \* the latest registry operation
    lastAddr,   \* address of the latest putServer
    alive,      \* result of the latest aliveServers
    \* ---- xclient.MultiServersDiscovery
    dServers,   \* MultiServersDiscovery.servers
    dIndex,     \* MultiServersDiscovery.index
    dIndex0,    \* the index NewMultiServerDiscovery chose
    dHist,      \* what the round-robin Gets returned while the list was fixed
    dUpdated,   \* Update has been called
    dLast,      \* the latest discovery operation and what it returned
    dRet,       \* the slice the latest GetAll returned, in the caller's hands
    dCrashed,   \* a Get panicked
    \* ---- registry.Heartbeat
    hbpc,       \* position of Heartbeat and of its goroutine
    hbGiven,    \* the duration Heartbeat was called with
    hbDur,      \* duration after the default was applied
    hbErr,      \* err of the latest sendHeartbeat is not nil
    hbFailed,   \* some sendHeartbeat has returned an error
    hbDue,      \* time of the ticker's next tick
    hbSends,    \* sendHeartbeat calls so far
    hbReq,      \* the POST of the sendHeartbeat under way, or of the last one
    hbTick,     \* a tick is waiting in t.C
    hbReg,      \* the registry string Heartbeat was called with
    \* ---- concurrent callers of MultiServersDiscovery.Get
    cMu,        \* holder of d.mu (0: nobody)
    cpc,        \* position of each caller in Get
    cN,         \* each caller's n
    cPos,       \* the position each caller read
    cS,         \* each caller's s
    cErr,       \* the error each caller returns
    cTmp        \* d.index as each caller loaded it for the increment

connVars == <<opt, reqs, over, rpos, lpc, cur, hdr, hErr, mpc, gpc, gerr, timer,
              sending, wg, wire, numCalls, crashed, hdrFailed>>
registerVars == <<regpc, regRcv, regRes>>
registryVars == <<timeout, servers, now, lastBeat, lastOp, lastAddr, alive>>
discVars == <<dServers, dIndex, dIndex0, dHist, dUpdated, dLast, dRet, dCrashed>>
hbVars == <<hbpc, hbGiven, hbDur, hbErr, hbFailed, hbDue, hbSends, hbReq,
            hbTick, hbReg>>
getVars == <<cMu, cpc, cN, cPos, cS, cErr, cTmp>>
vars == <<connVars, serviceMap, registerVars, registryVars, discVars, hbVars,
          getVars>>

\* what the connection's steps leave alone, and so on
notConn == <<serviceMap, registerVars, registryVars, discVars, hbVars, getVars>>
notRegister == <<connVars, registryVars, discVars, hbVars, getVars>>
notRegistry == <<connVars, serviceMap, registerVars, discVars, hbVars, getVars>>
notDisc == <<connVars, serviceMap, registerVars, registryVars, hbVars, getVars>>
\* concurrent Gets work on the discovery, and leave the rest alone
notGet == <<connVars, serviceMap, registerVars, registryVars, hbVars>>
\* a heartbeat reaches the registry, so its steps leave the rest alone
notHb == <<connVars, serviceMap, registerVars, discVars, getVars>>

----------------------------------------------------------------------------
(* Bounds *)

\* requests a client sends on the connection
MaxReqs == 2

\* length of a discovery's server list
MaxServers == 3

\* the initial round-robin index is below this
MaxIndex == 4

\* round-robin Gets on a list that is never updated
MaxGets == 5

\* minutes the clock runs while a server sends heartbeats
MaxHbTime == 9

\* longest period, in minutes, a caller of Heartbeat asks for
MaxDuration == 2

\* concurrent callers of Get
MaxGetters == 3

\* concurrent calls of Server.Register
MaxRegs == 2

\* the registry's clock runs from 0 to MaxTime
MaxTime == 3

\* the registry's timeout is one of 0..MaxTimeout
MaxTimeout == 2

----------------------------------------------------------------------------
(* codec package and Option *)

MagicNumber == 3927900

GobType == <<"application/gob">>
JsonType == <<"application/json">>

\* a tag the codec package does not declare
OtherType == <<"application/other">>

\* the codec types with a registered constructor (init fills in Gob alone)
NewCodecFuncMapWithJson == {GobType, JsonType}
NewCodecFuncMap == {GobType}

\* the Option records a client may send; decodeOk = FALSE is a record json
\* cannot decode, which leaves opt at its zero value
HandleTimeouts == {0, 1}
Options ==
    [decodeOk : {TRUE}, MagicNumber : {MagicNumber, MagicNumber + 1},
     CodecType : {GobType, JsonType, OtherType}, HandleTimeout : HandleTimeouts]
    \cup {[decodeOk |-> FALSE, MagicNumber |-> 0, CodecType |-> << >>,
           HandleTimeout |-> 0]}

\* what ServeConn decides from the Option: TRUE = go on to serveCodec
OptionAccepted(o) ==
    /\ o.decodeOk
    /\ o.MagicNumber = MagicNumber
    /\ o.CodecType \in NewCodecFuncMap

----------------------------------------------------------------------------
(* Service catalog *)

\* a nil *service or *methodType
Nil == <<"nil">>

\* the receivers a program may register: a type name and an instance (the
\* type t is not exported); the methods of each type that registerMethods
\* keeps
Receivers == [typ : {<<"T">>, <<"U">>, <<"t">>}, inst : {1, 2}]
MethodsOf(typ) == IF typ = <<"T">> THEN {<<"S">>} ELSE {<<"S">>, <<"M">>}

\* ast.IsExported: the name begins with an upper-case letter
UpperCase ==
    {"A", "B", "C", "D", "E", "F", "G", "H", "I", "J", "K", "L", "M",
     "N", "O", "P", "Q", "R", "S", "T", "U", "V", "W", "X", "Y", "Z"}
IsExported(name) == name # << >> /\ name[1] \in UpperCase

\* log.Fatalf: the process exits inside the call (os.Exit(1))
Fatal == [exit |-> 1]

\* newService: the service of a receiver, or the exit when the name of its
\* type is not exported
newService(rcv) ==
    IF ~IsExported(rcv.typ)
    THEN Fatal
    ELSE [name |-> rcv.typ, rcv |-> rcv, method |-> MethodsOf(rcv.typ)]

\* the server of the connection model has registered one T
RegisteredT == newService([typ |-> <<"T">>, inst |-> 1])
ServedMap == [n \in {RegisteredT.name} |-> RegisteredT]
MethodKeys(map) == UNION {{<<n, m>> : m \in map[n].method} : n \in DOMAIN map}

\* strings.LastIndex: the 0-based index of the last c in s, -1 if none
LastIndex(s, c) ==
    LET I == {k \in 1..Len(s) : s[k] = c}
    IN  IF I = {} THEN -1 ELSE (CHOOSE k \in I : \A j \in I : j <= k) - 1

ErrIllFormed == "rpc server: service/method request ill-formed: "
ErrNoService == "rpc server: can't find service "
ErrNoMethod == "rpc server: can't find method "
ErrTimeout == "rpc server: request handle timeout: expect within "
ErrReadBody == "read body: "
ErrCall == "call: "

\* Server.findService with the method lookup's nil check left out
findServiceNoNilCheck(serviceMethod) ==
    LET dot == LastIndex(serviceMethod, ".")
        serviceName == SubSeq(serviceMethod, 1, dot)
        methodName == SubSeq(serviceMethod, dot + 2, Len(serviceMethod))
    IN  IF dot < 0
        THEN [svc |-> Nil, mType |-> Nil, err |-> <<ErrIllFormed, serviceMethod>>]
        ELSE IF serviceName \notin DOMAIN serviceMap
        THEN [svc |-> Nil, mType |-> Nil, err |-> <<ErrNoService, serviceName>>]
        ELSE [svc |-> serviceName,
              mType |-> IF methodName \in serviceMap[serviceName].method
                        THEN methodName ELSE Nil,
              err |-> << >>]

\* Server.findService: (svc, mType, err)
findService(serviceMethod) ==
    LET dot == LastIndex(serviceMethod, ".")
        serviceName == SubSeq(serviceMethod, 1, dot)
        methodName == SubSeq(serviceMethod, dot + 2, Len(serviceMethod))
    IN  IF dot < 0
        THEN [svc |-> Nil, mType |-> Nil, err |-> <<ErrIllFormed, serviceMethod>>]
        ELSE IF serviceName \notin DOMAIN serviceMap
        THEN [svc |-> Nil, mType |-> Nil, err |-> <<ErrNoService, serviceName>>]
        ELSE IF methodName \notin serviceMap[serviceName].method
        THEN [svc |-> serviceName, mType |-> Nil,
              err |-> <<ErrNoMethod, methodName>>]
        ELSE [svc |-> serviceName, mType |-> methodName, err |-> << >>]

----------------------------------------------------------------------------
(* Error texts *)

\* the digits fmtFrac prints after the point: the fraction f of a unit of
\* scale nanoseconds, most significant digit first, trailing zeros left out
RECURSIVE FracDigits(_, _)
FracDigits(f, scale) ==
    IF f = 0 THEN ""
    ELSE ToString(f \div (scale \div 10))
             \o FracDigits(f % (scale \div 10), scale \div 10)

\* fmtFrac with the integer part in front: v nanoseconds in units of scale
InUnits(v, scale) ==
    ToString(v \div scale)
        \o (IF v % scale = 0 THEN "" ELSE "." \o FracDigits(v % scale, scale))

\* time.Duration.String, as fmt.Sprintf("%s", timeout) prints a Duration of
\* 0 <= d < 60s nanoseconds: "0s", "1ns", "1.5µs", "2ms", "1.2s"
DurationString(d) ==
    IF d = 0 THEN <<"0s">>
    ELSE IF d < 1000 THEN <<ToString(d) \o "ns">>
    ELSE IF d < 1000000 THEN <<InUnits(d, 1000) \o "µs">>
    ELSE IF d < 1000000000 THEN <<InUnits(d, 1000000) \o "ms">>
    ELSE <<InUnits(d, 1000000000) \o "s">>

\* fmt.Sprintf("rpc server: request handle timeout: expect within %s", timeout)
TimeoutErrorNoDuration(d) == <<ErrTimeout, << >> >>
TimeoutError(d) == <<ErrTimeout, DurationString(d)>>

----------------------------------------------------------------------------
(* The client's side of the connection *)

\* ServiceMethod values a client sends: T.S resolves; T.N names no method of
\* T, U.S no registered service, TS has no dot
ServiceMethods ==
    {<<"T", ".", "S">>, <<"T", ".", "N">>, <<"U", ".", "S">>, <<"T", "S">>}

\* a text a method's error may have (err.Error() is any string)
CallFailed == <<ErrCall, << >> >>

\* one request: its Header's ServiceMethod and Error as the client filled
\* them in, whether its Body decodes into the method's argument type,
\* whether its Header decodes at all (one that does not is malformed data),
\* and the text of the error its method returns when it fails on this
\* argument.  Its Seq is its position in reqs.
Request(sm, bodyOk, hdrOk, err, fail) ==
    [sm |-> sm, bodyOk |-> bodyOk, hdrOk |-> hdrOk, err |-> err, fail |-> fail]
ReqKinds ==
    {Request(x, TRUE, TRUE, << >>, CallFailed) : x \in ServiceMethods}
    \cup {Request(<<"T", ".", "S">>, FALSE, TRUE, << >>, CallFailed)}
    \cup {Request(<<"T", ".", "S">>, TRUE, FALSE, << >>, CallFailed)}

ClientStreams == UNION {[1..n -> ReqKinds] : n \in 0..MaxReqs}

\* streams whose requests carry other texts: the client has filled in
\* Header.Error, or the method's error has the empty text, or it has the
\* text of the timeout error; next to the request for T.S there is one whose
\* service is not registered
TextChoices ==
    {[err |-> <<"x">>, fail |-> << >>]}
    \cup {[err |-> << >>, fail |-> TimeoutError(t)] : t \in HandleTimeouts \ {0}}
TextKinds(c) ==
    {Request(<<"T", ".", "S">>, TRUE, TRUE, c.err, c.fail),
     Request(<<"U", ".", "S">>, TRUE, TRUE, <<"x">>, c.fail)}
TextStreams ==
    UNION {[1..n -> TextKinds(c)] : n \in 0..MaxReqs, c \in TextChoices}

Reqs == 1..MaxReqs

\* the stream after the Option: Header1 Body1 Header2 Body2 ...
StreamLen == 2 * Len(reqs)
StreamItem(k) ==
    IF k % 2 = 1
    THEN [kind |-> "H", seq |-> (k + 1) \div 2]
    ELSE [kind |-> "B", seq |-> k \div 2]

\* what json.NewDecoder(conn).Decode can take from the connection beyond
\* the Option: the decoder reads ahead into a buffer of its own, so the
\* stream items that had arrived with the Option, some of them whole and
\* maybe a part of the next one, are gone when the codec starts on conn
NoOver == [items |-> 0, torn |-> FALSE]
Overreads(len) ==
    {o \in [items : 0..len, torn : BOOLEAN] : o.torn => o.items < len}

\* Codec.ReadHeader at stream position pos: a Header decodes from a Header;
\* end of stream and anything else (a Body, what is left of a torn item)
\* are errors
ReadHeader(pos) ==
    IF pos + 1 > StreamLen THEN [ok |-> FALSE, seq |-> 0, eof |-> TRUE]
    ELSE IF over.torn /\ pos = over.items
    THEN [ok |-> FALSE, seq |-> 0, eof |-> FALSE]
    ELSE IF StreamItem(pos + 1).kind = "H" /\ reqs[StreamItem(pos + 1).seq].hdrOk
    THEN [ok |-> TRUE, seq |-> StreamItem(pos + 1).seq, eof |-> FALSE]
    ELSE [ok |-> FALSE, seq |-> 0, eof |-> FALSE]

----------------------------------------------------------------------------
(* Server.ServeConn and Server.serveCodec: one connection *)

\* owners of the sending mutex
Free == <<"free", 0>>
Loop == <<"loop", 0>>
Main(i) == <<"main", i>>
Go(i) == <<"go", i>>

\* sync.Mutex.Lock returns only when nobody holds the mutex
LockNoWait(owner) == TRUE
CanLock(owner) == owner = Free

\* called is unbuffered: the goroutine's send completes only when
\* handleRequest is receiving from called (<-called, or the select)
CalledBuffered(m) == TRUE
CalledReady(m) == m \in {"recvCalled", "select"}

\* sent is unbuffered: its send completes only at handleRequest's <-sent
SentReady(m) == m = "recvSent"

\* wg.Wait returns only when the counter is zero
WaitNoWait(n) == TRUE
WaitDone(n) == n = 0

\* atomic.AddUint64(&m.numCalls, 1)
StoreOne(old, delta) == delta
AddUint64(old, delta) == old + delta

\* the Header object req.h of request i points to: readRequestHeader
\* declares a new one (var h codec.Header) on every call
SharedHeader(i) == 1
HeaderObj(i) == i

\* what cc.Write puts on the connection: the Header req.h points to as it is
\* at that moment, then the Body
HeaderOut(i) ==
    [kind |-> "H", seq |-> hdr[HeaderObj(i)].seq, sm |-> hdr[HeaderObj(i)].sm,
     err |-> hErr[HeaderObj(i)]]
BodyOut(i, body) == [kind |-> "B", seq |-> i, body |-> body]

\* ServeConn has the connection and has read nothing from it
ConnStart ==
    /\ over = NoOver
    /\ rpos = 0
    /\ lpc = "option"
    /\ cur = 0
    /\ hdr = [o \in Reqs |-> [seq |-> 0, sm |-> << >>]]
    /\ hErr = [o \in Reqs |-> << >>]
    /\ mpc = [i \in Reqs |-> "idle"]
    /\ gpc = [i \in Reqs |-> "none"]
    /\ gerr = [i \in Reqs |-> Nil]
    /\ timer = [i \in Reqs |-> "off"]
    /\ sending = Free
    /\ wg = 0
    /\ wire = << >>
    /\ numCalls = [k \in MethodKeys(ServedMap) |-> 0]
    /\ crashed = FALSE
    /\ hdrFailed = FALSE

InitConn ==
    /\ opt \in Options
    /\ reqs \in ClientStreams
    /\ ConnStart

\* a connection whose client sent an Option the server accepts and requests
\* that differ in their texts
InitConnTexts ==
    /\ opt \in {o \in Options : OptionAccepted(o)}
    /\ reqs \in TextStreams
    /\ ConnStart

\* a connection that is not part of the run
IdleConn ==
    /\ opt = [decodeOk |-> FALSE, MagicNumber |-> 0, CodecType |-> << >>,
              HandleTimeout |-> 0]
    /\ reqs = << >>
    /\ over = NoOver
    /\ rpos = 0
    /\ lpc = "closed"
    /\ cur = 0
    /\ hdr = [o \in Reqs |-> [seq |-> 0, sm |-> << >>]]
    /\ hErr = [o \in Reqs |-> << >>]
    /\ mpc = [i \in Reqs |-> "idle"]
    /\ gpc = [i \in Reqs |-> "none"]
    /\ gerr = [i \in Reqs |-> Nil]
    /\ timer = [i \in Reqs |-> "off"]
    /\ sending = Free
    /\ wg = 0
    /\ wire = << >>
    /\ numCalls = [k \in {} |-> 0]
    /\ crashed = FALSE
    /\ hdrFailed = FALSE

\* ServeConn: decode and check the Option, then serveCodec or close.  The
\* decoder is dropped with what it had read ahead, and the codec is built on
\* the connection itself
ServeConn ==
    /\ lpc = "option"
    /\ lpc' = IF OptionAccepted(opt) THEN "read" ELSE "closed"
    /\ \E o \in Overreads(StreamLen) :
          /\ over' = o
          /\ rpos' = o.items
    /\ UNCHANGED <<notConn, hdrFailed, hdr, opt, reqs, cur, hErr, mpc, gpc, gerr,
                   timer, sending, wg, wire, numCalls, crashed>>

\* where serveCodec goes when readRequest returned no request: continue
ContinueAfterHeaderError == "read"
\* break, to wg.Wait()
AfterHeaderError == "wait"

\* one turn of serveCodec's loop up to readRequest's ReadBody:
\* readRequestHeader, which decodes the client's Header into a new Header
\* object, then findService and newArgV; a Header that does not decode
\* breaks the loop, a ServiceMethod that does not resolve gets an error reply
ReadRequest ==
    /\ lpc = "read"
    /\ hdrFailed' = (hdrFailed \/ ~ReadHeader(rpos).ok)
    /\ hdr' = IF ReadHeader(rpos).ok
              THEN [hdr EXCEPT ![HeaderObj(ReadHeader(rpos).seq)] =
                       [seq |-> ReadHeader(rpos).seq,
                        sm |-> reqs[ReadHeader(rpos).seq].sm]]
              ELSE hdr
    /\ LET h == ReadHeader(rpos) IN
       IF ~h.ok
       THEN /\ lpc' = AfterHeaderError
            /\ rpos' = IF h.eof THEN rpos ELSE rpos + 1
            /\ UNCHANGED <<cur, hErr, crashed>>
       ELSE LET i == h.seq
                fs == findService(reqs[i].sm)
            IN  IF fs.err # << >>
                THEN \* req returned before ReadBody: the Body stays unread;
                     \* req.h.Error = err.Error()
                     /\ rpos' = rpos + 1
                     /\ hErr' = [hErr EXCEPT ![HeaderObj(i)] = fs.err]
                     /\ cur' = i
                     /\ lpc' = "errLock"
                     /\ UNCHANGED crashed
                ELSE IF fs.mType = Nil
                THEN \* req.mType.newArgV() on a nil *methodType
                     /\ crashed' = TRUE
                     /\ lpc' = "crashed"
                     /\ rpos' = rpos + 1
                     /\ hErr' = [hErr EXCEPT ![HeaderObj(i)] = reqs[i].err]
                     /\ UNCHANGED cur
                ELSE \* on to cc.ReadBody(argVI)
                     /\ rpos' = rpos + 1
                     /\ hErr' = [hErr EXCEPT ![HeaderObj(i)] = reqs[i].err]
                     /\ cur' = i
                     /\ lpc' = "body"
                     /\ UNCHANGED crashed
    /\ UNCHANGED <<notConn, over, opt, reqs, mpc, wg, gpc, gerr, timer, sending, wire,
                   numCalls>>

\* cc.ReadBody of the request whose Header was read, once the client's Body
\* is there: a Body that does not decode gets an error reply (req.h.Error =
\* err.Error()), any other starts handleRequest (wg.Add(1); go), with the
\* Header as the client sent it
ReadBody ==
    /\ lpc = "body"
    /\ rpos' = rpos + 1
    /\ IF ~reqs[cur].bodyOk
       THEN /\ hErr' = [hErr EXCEPT ![HeaderObj(cur)] = <<ErrReadBody, << >> >>]
            /\ lpc' = "errLock"
            /\ UNCHANGED <<cur, mpc, wg>>
       ELSE /\ wg' = wg + 1
            /\ mpc' = [mpc EXCEPT ![cur] = "start"]
            /\ cur' = 0
            /\ lpc' = "read"
            /\ UNCHANGED hErr
    /\ UNCHANGED <<notConn, over, hdrFailed, hdr, opt, reqs, gpc, gerr, timer, sending,
                   wire, numCalls, crashed>>

\* sendResponse of the read loop's error reply: sending.Lock()
LoopLock ==
    /\ lpc = "errLock"
    /\ CanLock(sending)
    /\ sending' = Loop
    /\ lpc' = "errWriteH"
    /\ UNCHANGED <<notConn, over, hdrFailed, hdr, opt, reqs, rpos, cur, hErr, mpc, gpc, gerr, timer, wg,
                   wire, numCalls, crashed>>

\* cc.Write: the Header
LoopWriteHeader ==
    /\ lpc = "errWriteH"
    /\ wire' = Append(wire, HeaderOut(cur))
    /\ lpc' = "errWriteB"
    /\ UNCHANGED <<notConn, over, hdrFailed, hdr, opt, reqs, rpos, cur, hErr, mpc, gpc, gerr, timer,
                   sending, wg, numCalls, crashed>>

\* cc.Write: the Body (invalidRequest); sending.Unlock(); continue
LoopWriteBody ==
    /\ lpc = "errWriteB"
    /\ wire' = Append(wire, BodyOut(cur, "invalidRequest"))
    /\ sending' = Free
    /\ cur' = 0
    /\ lpc' = "read"
    /\ UNCHANGED <<notConn, over, hdrFailed, hdr, opt, reqs, rpos, hErr, mpc, gpc, gerr, timer, wg,
                   numCalls, crashed>>

\* wg.Wait(); cc.Close(); and ServeConn's deferred conn.Close()
Drain ==
    /\ lpc = "wait"
    /\ WaitDone(wg)
    /\ lpc' = "closed"
    /\ UNCHANGED <<notConn, over, hdrFailed, hdr, opt, reqs, rpos, cur, hErr, mpc, gpc, gerr, timer,
                   sending, wg, wire, numCalls, crashed>>

----------------------------------------------------------------------------
(* Server.handleRequest: the task of request i and its inner goroutine *)

\* the method a dispatched request resolved to
MethodKey(i) ==
    LET fs == findService(reqs[i].sm) IN <<fs.svc, fs.mType>>

\* the test timeout == 0 of handleRequest
TimeoutIgnored(t) == TRUE
NoTimeout(t) == t = 0

\* make the channels, start the goroutine; then <-called (timeout = 0) or
\* the select with time.After(timeout)
HandleRequest(i) ==
    /\ mpc[i] = "start"
    /\ gpc' = [gpc EXCEPT ![i] = "call"]
    /\ IF NoTimeout(opt.HandleTimeout)
       THEN /\ mpc' = [mpc EXCEPT ![i] = "recvCalled"]
            /\ UNCHANGED timer
       ELSE /\ mpc' = [mpc EXCEPT ![i] = "select"]
            /\ timer' = [timer EXCEPT ![i] = "armed"]
    /\ UNCHANGED <<notConn, over, hdrFailed, hdr, opt, reqs, rpos, lpc, cur, hErr, gerr, sending, wg, wire,
                   numCalls, crashed>>

\* service.call: atomic.AddUint64(&m.numCalls, 1), then the method starts
CallStart(i) ==
    /\ gpc[i] = "call"
    /\ numCalls' = [numCalls EXCEPT ![MethodKey(i)] = AddUint64(@, 1)]
    /\ gpc' = [gpc EXCEPT ![i] = "running"]
    /\ UNCHANGED <<notConn, over, hdrFailed, hdr, opt, reqs, rpos, lpc, cur, hErr, mpc, gerr, timer,
                   sending, wg, wire, crashed>>

\* the method returns, nil or an error
CallReturn(i) ==
    /\ gpc[i] = "running"
    /\ \E e \in {Nil, reqs[i].fail} : gerr' = [gerr EXCEPT ![i] = e]
    /\ gpc' = [gpc EXCEPT ![i] = "called"]
    /\ UNCHANGED <<notConn, over, hdrFailed, hdr, opt, reqs, rpos, lpc, cur, hErr, mpc, timer, sending, wg,
                   wire, numCalls, crashed>>

\* the timer of time.After(timeout) fires while the select has not decided;
\* the timer value records whether the method had returned by then
TimerFire(i) ==
    /\ mpc[i] = "select"
    /\ timer[i] = "armed"
    /\ timer' = [timer EXCEPT ![i] =
                    IF gpc[i] \in {"call", "running"}
                    THEN "firedFirst" ELSE "firedLate"]
    /\ UNCHANGED <<notConn, over, hdrFailed, hdr, opt, reqs, rpos, lpc, cur, hErr, mpc, gpc, gerr, sending,
                   wg, wire, numCalls, crashed>>

\* case <-time.After(timeout): set req.h.Error, go on to sendResponse
SelectTimeout(i) ==
    /\ mpc[i] = "select"
    /\ timer[i] \in {"firedFirst", "firedLate"}
    /\ hErr' = [hErr EXCEPT ![HeaderObj(i)] = TimeoutError(opt.HandleTimeout)]
    /\ mpc' = [mpc EXCEPT ![i] = "lock"]
    /\ UNCHANGED <<notConn, over, hdrFailed, hdr, opt, reqs, rpos, lpc, cur, gpc, gerr, timer, sending, wg,
                   wire, numCalls, crashed>>

\* called <- struct{}{} meets <-called (or case <-called); the goroutine
\* then sets req.h.Error if the method failed and goes on to sendResponse
SendCalled(i) ==
    /\ gpc[i] = "called"
    /\ CalledReady(mpc[i])
    /\ gpc' = [gpc EXCEPT ![i] = "lock"]
    /\ mpc' = [mpc EXCEPT ![i] =
                  IF @ \in {"recvCalled", "select"} THEN "recvSent" ELSE @]
    /\ hErr' = [hErr EXCEPT ![HeaderObj(i)] =
                    IF gerr[i] # Nil THEN gerr[i] ELSE @]
    /\ UNCHANGED <<notConn, over, hdrFailed, hdr, opt, reqs, rpos, lpc, cur, gerr, timer, sending, wg, wire,
                   numCalls, crashed>>

\* sendResponse of the timeout path: sending.Lock()
MainLock(i) ==
    /\ mpc[i] = "lock"
    /\ CanLock(sending)
    /\ sending' = Main(i)
    /\ mpc' = [mpc EXCEPT ![i] = "writeH"]
    /\ UNCHANGED <<notConn, over, hdrFailed, hdr, opt, reqs, rpos, lpc, cur, hErr, gpc, gerr, timer, wg,
                   wire, numCalls, crashed>>

\* cc.Write: the Header
MainWriteHeader(i) ==
    /\ mpc[i] = "writeH"
    /\ wire' = Append(wire, HeaderOut(i))
    /\ mpc' = [mpc EXCEPT ![i] = "writeB"]
    /\ UNCHANGED <<notConn, over, hdrFailed, hdr, opt, reqs, rpos, lpc, cur, hErr, gpc, gerr, timer,
                   sending, wg, numCalls, crashed>>

\* cc.Write: the Body (invalidRequest); sending.Unlock(); return, wg.Done()
MainWriteBody(i) ==
    /\ mpc[i] = "writeB"
    /\ wire' = Append(wire, BodyOut(i, "invalidRequest"))
    /\ sending' = Free
    /\ mpc' = [mpc EXCEPT ![i] = "done"]
    /\ wg' = wg - 1
    /\ UNCHANGED <<notConn, over, hdrFailed, hdr, opt, reqs, rpos, lpc, cur, hErr, gpc, gerr, timer,
                   numCalls, crashed>>

\* sendResponse of the goroutine: sending.Lock()
GoLock(i) ==
    /\ gpc[i] = "lock"
    /\ CanLock(sending)
    /\ sending' = Go(i)
    /\ gpc' = [gpc EXCEPT ![i] = "writeH"]
    /\ UNCHANGED <<notConn, over, hdrFailed, hdr, opt, reqs, rpos, lpc, cur, hErr, mpc, gerr, timer, wg,
                   wire, numCalls, crashed>>

\* cc.Write: the Header
GoWriteHeader(i) ==
    /\ gpc[i] = "writeH"
    /\ wire' = Append(wire, HeaderOut(i))
    /\ gpc' = [gpc EXCEPT ![i] = "writeB"]
    /\ UNCHANGED <<notConn, over, hdrFailed, hdr, opt, reqs, rpos, lpc, cur, hErr, mpc, gerr, timer,
                   sending, wg, numCalls, crashed>>

\* cc.Write: the Body (invalidRequest after an error, else the reply);
\* sending.Unlock()
GoWriteBody(i) ==
    /\ gpc[i] = "writeB"
    /\ wire' = Append(wire, BodyOut(i, IF gerr[i] # Nil THEN "invalidRequest"
                                                  ELSE "replyV"))
    /\ sending' = Free
    /\ gpc' = [gpc EXCEPT ![i] = "sent"]
    /\ UNCHANGED <<notConn, over, hdrFailed, hdr, opt, reqs, rpos, lpc, cur, hErr, mpc, gerr, timer, wg,
                   numCalls, crashed>>

\* sent <- struct{}{} meets <-sent; handleRequest returns, wg.Done()
SendSent(i) ==
    /\ gpc[i] = "sent"
    /\ SentReady(mpc[i])
    /\ gpc' = [gpc EXCEPT ![i] = "end"]
    /\ mpc' = [mpc EXCEPT ![i] = "done"]
    /\ wg' = wg - 1
    /\ UNCHANGED <<notConn, over, hdrFailed, hdr, opt, reqs, rpos, lpc, cur, hErr, gerr, timer, sending,
                   wire, numCalls, crashed>>

ConnNext ==
    \/ ServeConn
    \/ ReadRequest
    \/ ReadBody
    \/ LoopLock
    \/ LoopWriteHeader
    \/ LoopWriteBody
    \/ Drain
    \/ \E i \in Reqs :
        \/ HandleRequest(i)
        \/ CallStart(i)
        \/ CallReturn(i)
        \/ TimerFire(i)
        \/ SelectTimeout(i)
        \/ SendCalled(i)
        \/ MainLock(i)
        \/ MainWriteHeader(i)
        \/ MainWriteBody(i)
        \/ GoLock(i)
        \/ GoWriteHeader(i)
        \/ GoWriteBody(i)
        \/ SendSent(i)

----------------------------------------------------------------------------
(* Properties of the connection engine *)

Sent == 1..Len(reqs)

\* positions on the wire of the response Headers and Bodies of request i
HeadersFor(i) == {k \in 1..Len(wire) : wire[k].kind = "H" /\ wire[k].seq = i}
BodiesFor(i) == {k \in 1..Len(wire) : wire[k].kind = "B" /\ wire[k].seq = i}

\* request i has a complete response on the wire, and what kind it is
Answered(i) == HeadersFor(i) # {} /\ BodiesFor(i) # {}
HeaderOf(i) == wire[CHOOSE k \in HeadersFor(i) : TRUE]
BodyOf(i) == wire[CHOOSE k \in BodiesFor(i) : TRUE]
\* the response is the timeout error: handleRequest wrote it on its timeout
\* path, with the timeout's text and the placeholder Body
TimeoutAnswer(i) ==
    /\ Answered(i)
    /\ mpc[i] = "done"
    /\ gpc[i] \in {"call", "running", "called"}
    /\ HeaderOf(i).err = TimeoutError(opt.HandleTimeout)
    /\ BodyOf(i).body = "invalidRequest"
\* the response is the method's answer: the goroutine wrote it, with the
\* reply and the Header as the client sent it when the method returned nil,
\* with the error's text and the placeholder Body when it returned an error
MethodAnswer(i) ==
    /\ Answered(i)
    /\ gpc[i] \in {"sent", "end"}
    /\ IF gerr[i] = Nil
       THEN HeaderOf(i).err = reqs[i].err /\ BodyOf(i).body = "replyV"
       ELSE HeaderOf(i).err = gerr[i] /\ BodyOf(i).body = "invalidRequest"

\* the method of request i has been entered / has returned
Invoked(i) == gpc[i] \notin {"none", "call"}
Returned(i) == gpc[i] \notin {"none", "call", "running"}

\* the Header of request i has been decoded by readRequestHeader
HeaderRead(i) ==
    /\ over.items < 2 * i - 1
    /\ ~(over.torn /\ over.items = 2 * i - 2)
    /\ rpos >= 2 * i - 1
    /\ reqs[i].hdrOk

\* a ServiceMethod that names a method of a registered service
Resolvable(sm) ==
    \E n \in DOMAIN serviceMap : \E m \in serviceMap[n].method :
        sm = n \o <<".">> \o m

\* C1: every request dispatched to handleRequest gets at most one response
\* on the wire at any time, exactly one once handleRequest has returned, and
\* that one is either the method's answer or the timeout error.
C1_OneResponse ==
    \A i \in Reqs :
        mpc[i] # "idle" =>
            /\ Cardinality(HeadersFor(i)) <= 1
            /\ Cardinality(BodiesFor(i)) <= 1
            /\ mpc[i] = "done" =>
                   /\ Cardinality(HeadersFor(i)) = 1
                   /\ Cardinality(BodiesFor(i)) = 1
                   /\ TimeoutAnswer(i) # MethodAnswer(i)

\* handleRequest answered with the timeout error and returned while the
\* method has returned too and its goroutine holds an answer of its own, an
\* error with the very text of the timeout error
C1_Witness ==
    \E i \in Reqs :
        /\ mpc[i] = "done" /\ TimeoutAnswer(i) /\ gpc[i] = "called"
        /\ gerr[i] = HeaderOf(i).err

\* the tasks inside cc.Write, and those waiting in sending.Lock()
Writers ==
    {Main(i) : i \in {j \in Reqs : mpc[j] \in {"writeH", "writeB"}}}
    \cup {Go(i) : i \in {j \in Reqs : gpc[j] \in {"writeH", "writeB"}}}
    \cup (IF lpc \in {"errWriteH", "errWriteB"} THEN {Loop} ELSE {})
Lockers ==
    {Main(i) : i \in {j \in Reqs : mpc[j] = "lock"}}
    \cup {Go(i) : i \in {j \in Reqs : gpc[j] = "lock"}}
    \cup (IF lpc = "errLock" THEN {Loop} ELSE {})

\* C2: whoever is inside cc.Write holds the sending mutex, at most one task
\* is inside cc.Write, and the wire is a sequence of Header+Body pairs, each
\* Body directly after the Header of the same response.
C2_WritesSerialized ==
    /\ Cardinality(Writers) <= 1
    /\ \A w \in Writers : sending = w
    /\ Writers = {} => sending = Free
    /\ \A k \in 1..Len(wire) :
        IF k % 2 = 1
        THEN wire[k].kind = "H"
        ELSE wire[k].kind = "B" /\ wire[k].seq = wire[k - 1].seq
    /\ Writers = {} => Len(wire) % 2 = 0

\* a goroutine is between its Header and its Body while the handleRequest
\* task of another request waits for the mutex on its timeout path
C2_Witness ==
    /\ Len(wire) % 2 = 1
    /\ \E i \in Reqs : gpc[i] = "writeB"
    /\ \E i \in Reqs : mpc[i] = "lock"

\* C3: once the stream is closed every dispatched handleRequest task has
\* returned, and nothing is written to the connection afterwards.
C3_CloseAfterDrain ==
    /\ [](lpc = "closed" => \A i \in Reqs : mpc[i] \in {"idle", "done"})
    /\ [][lpc = "closed" => wire' = wire]_vars

\* the stream is closed after a request timed out, while its method is
\* still running in the goroutine
C3_Witness ==
    /\ lpc = "closed"
    /\ \E i \in Reqs : TimeoutAnswer(i) /\ gpc[i] = "running"
    /\ \E i \in Reqs : MethodAnswer(i)

\* C4 as stated: with T > 0 the response is the timeout error when the timer
\* fired before the method returned, and the method's answer when the method
\* returned before the timer fired.
C4_AsStated ==
    \A i \in Reqs :
        (opt.HandleTimeout > 0 /\ Answered(i) /\ mpc[i] = "done") =>
            /\ timer[i] = "firedFirst" => TimeoutAnswer(i)
            /\ timer[i] # "firedFirst" => MethodAnswer(i)

\* C4 as amended: with T > 0 the response is the timeout error, with T in its
\* text and the placeholder body, exactly when the select took the timer
\* (the goroutine then never gets past its send on called), and this needs
\* the timer to have fired; otherwise it is the method's answer, which needs
\* the method to have returned.  A timer that never fired gives the method's
\* answer, a method that never returned gives the timeout error.
C4_SelectDecides ==
    \A i \in Reqs :
        (opt.HandleTimeout > 0 /\ Answered(i) /\ mpc[i] # "idle") =>
            IF gpc[i] \in {"call", "running", "called"}
            THEN /\ TimeoutAnswer(i)
                 /\ HeaderOf(i).err[2] = DurationString(opt.HandleTimeout)
                 /\ BodyOf(i).body = "invalidRequest"
                 /\ timer[i] \in {"firedFirst", "firedLate"}
            ELSE /\ MethodAnswer(i)
                 /\ Returned(i)
                 /\ gerr[i] \in {Nil, reqs[i].fail}

\* the method returned before the timer fired, and the timeout error was sent
C4_Witness ==
    \E i \in Reqs :
        timer[i] = "firedLate" /\ TimeoutAnswer(i) /\ mpc[i] = "done"

\* C5: a request whose ServiceMethod does not resolve is never dispatched,
\* its method is not invoked, no call counter counts it, the server does not
\* crash, and once the read loop is past it the wire holds one response for
\* it whose Header has a non-empty error.
C5_UnresolvableAnswered ==
    /\ ~crashed
    /\ \A key \in DOMAIN numCalls :
        numCalls[key] <=
            Cardinality({i \in Sent : Resolvable(reqs[i].sm)
                                      /\ MethodKey(i) = key})
    /\ \A i \in Sent :
        ~Resolvable(reqs[i].sm) =>
            /\ mpc[i] = "idle"
            /\ gpc[i] = "none"
            /\ (HeaderRead(i) /\ cur # i) =>
                   /\ Cardinality(HeadersFor(i)) = 1
                   /\ Answered(i)
                   /\ HeaderOf(i).err # << >>
                   /\ BodyOf(i).body = "invalidRequest"

\* a request naming a method T does not have was answered with an error,
\* after a request that resolved was invoked
C5_Witness ==
    \E i \in Sent :
        /\ reqs[i].sm = <<"T", ".", "N">>
        /\ Answered(i)
        /\ HeaderOf(i).err = <<ErrNoMethod, <<"N">> >>
        /\ \E j \in Sent : Invoked(j)

\* the request was answered by the read loop with a dispatch error
DispatchErrorAnswered(i) ==
    /\ Answered(i)
    /\ HeaderOf(i).err # << >>
    /\ HeaderOf(i).err[1] \in {ErrIllFormed, ErrNoService, ErrNoMethod,
                               ErrReadBody}

\* C6: after a dispatch error was answered, the next request on the
\* connection is read from its own Header (while a Header is still to be
\* read, the loop reads at a Header boundary) and, by the time the
\* connection is closed, answered.
C6_ServesNextRequest ==
    /\ (lpc = "read" /\ over = NoOver /\ \E i \in Sent : ~HeaderRead(i)) =>
           rpos % 2 = 0
    /\ \A i \in Sent :
        (/\ DispatchErrorAnswered(i)
         /\ i < Len(reqs)
         /\ over = NoOver
         /\ \A j \in Sent : reqs[j].hdrOk
         /\ lpc = "closed") =>
            Answered(i + 1)

\* requests that have a Header or a Body on the wire
Responded == {w.seq : w \in {wire[k] : k \in 1..Len(wire)}}

\* C19: once reading a Header has failed, the read loop is waiting for the
\* handlers or the connection is closed; the failing read itself writes
\* nothing and prepares no error reply; nothing more is read from the
\* stream; the loop's only further step is from waiting to closed; and only
\* requests whose Header was decoded have anything on the wire.
C19_HeaderFailureEndsLoop ==
    /\ [](hdrFailed => lpc \in {"wait", "closed"})
    /\ [](hdrFailed => cur = 0 /\ sending # Loop)
    /\ [](\A i \in Responded : HeaderRead(i))
    /\ [][(~hdrFailed /\ hdrFailed') =>
              (wire' = wire /\ hErr' = hErr /\ cur' = cur /\ mpc' = mpc)]_vars
    /\ [][hdrFailed => (rpos' = rpos /\ hdrFailed')]_vars
    /\ [][(hdrFailed /\ lpc' # lpc) =>
              (lpc = "wait" /\ lpc' = "closed" /\ wg = 0)]_vars

\* the connection closed after a malformed Header that followed an answered
\* request
C19_Witness ==
    /\ hdrFailed
    /\ lpc = "closed"
    /\ wire # << >>
    /\ \E i \in Sent : ~reqs[i].hdrOk /\ rpos = 2 * i - 1

\* the loop met the end of the stream while a handler was still running
C19_WitnessEof ==
    /\ hdrFailed
    /\ lpc = "wait"
    /\ rpos = StreamLen
    /\ wg > 0

\* C21: with a handle-timeout above zero there comes a time after which no
\* dispatched handleRequest is unfinished (each has returned, and with it
\* called wg.Done) and the read loop is not waiting in wg.Wait, whether or
\* not the methods ever return.  A task that has started never goes back to
\* idle and a loop that has left for wg.Wait only goes on to closed, so
\* every started task finishes and every wait ends in closed.
C21_TimeoutDrains ==
    /\ <>[](opt.HandleTimeout > 0 =>
              /\ \A i \in Reqs : mpc[i] \in {"idle", "done"}
              /\ lpc # "wait")
    /\ [][\A i \in Reqs :
              /\ mpc[i] # "idle" => mpc'[i] # "idle"
              /\ mpc[i] = "done" => mpc'[i] = "done"]_vars
    /\ [][lpc = "wait" => lpc' \in {"wait", "closed"}]_vars

\* the connection was closed while the method of an answered request was
\* still running
C21_Witness ==
    /\ opt.HandleTimeout > 0
    /\ lpc = "closed"
    /\ \E i \in Sent :
          gpc[i] = "running" /\ mpc[i] = "done" /\ TimeoutAnswer(i)

\* the error texts a response to request i may carry: the dispatch error
\* of its own ServiceMethod, the argument decode error, or for a dispatched
\* request the Error its own Header came with, its method's error or the
\* timeout error
OwnErrors(i) ==
    IF findService(reqs[i].sm).err # << >>
    THEN {findService(reqs[i].sm).err}
    ELSE IF ~reqs[i].bodyOk
    THEN {<<ErrReadBody, << >> >>}
    ELSE {reqs[i].err, reqs[i].fail, TimeoutError(opt.HandleTimeout)}

\* C22: every response Header on the wire has the Seq and ServiceMethod of
\* a request whose Header was read, carries an error text of that request,
\* and is followed by the Body written by the same task; no request has two
\* response Headers, and when the connection is closed every request whose
\* Header was read has one.
C22_ResponsesCarryOwnHeader ==
    /\ \A k \in 1..Len(wire) :
          wire[k].kind = "H" =>
              /\ wire[k].seq \in Sent
              /\ HeaderRead(wire[k].seq)
              /\ wire[k].sm = reqs[wire[k].seq].sm
              /\ wire[k].err \in OwnErrors(wire[k].seq)
              /\ k < Len(wire) =>
                    (wire[k + 1].kind = "B" /\ wire[k + 1].seq = wire[k].seq)
    /\ \A i \in Sent : Cardinality(HeadersFor(i)) <= 1
    /\ (lpc = "closed" /\ OptionAccepted(opt)) =>
          \A i \in Sent : HeaderRead(i) => Cardinality(HeadersFor(i)) = 1

\* two requests were handled at the same time and answered in the reverse
\* order, the first with an error and the second without
C22_Witness ==
    /\ Len(wire) = 4
    /\ wire[1].seq = 2 /\ wire[1].err = << >>
    /\ wire[3].seq = 1 /\ wire[3].err # << >>
    /\ lpc = "closed"

\* what the protocol accepts as an Option
OptionValid(o) ==
    o.decodeOk /\ o.MagicNumber = MagicNumber /\ o.CodecType = GobType

\* C7: after ServeConn has looked at an Option that does not decode, has
\* another magic number or names a codec type without constructor, the
\* connection is closed, no request was read (the codec took nothing from
\* the stream and no Header was decoded; what the Option's decoder had read
\* ahead is dropped unread), nothing written and no request dispatched.
C7_BadOptionCloses ==
    (~OptionValid(opt) /\ lpc # "option") =>
        /\ lpc = "closed"
        /\ rpos = over.items
        /\ \A i \in Reqs : hdr[i].seq = 0
        /\ cur = 0 /\ ~hdrFailed
        /\ wire = << >>
        /\ \A i \in Reqs : mpc[i] = "idle" /\ gpc[i] = "none"

\* a connection whose Option asked for the JSON codec was closed although
\* the client had sent requests, some of which the Option's decoder had
\* read ahead
C7_Witness ==
    /\ opt.decodeOk
    /\ opt.MagicNumber = MagicNumber
    /\ opt.CodecType = JsonType
    /\ lpc = "closed"
    /\ Len(reqs) > 0
    /\ over.items > 0

\* C8: each method's call counter equals the number of dispatched requests
\* for it whose method has been entered; a request is dispatched exactly
\* when it resolves and its Body decodes; and a method's answer on the wire
\* means its method was entered.
C8_CallsCounted ==
    /\ \A key \in DOMAIN numCalls :
        numCalls[key] =
            Cardinality({i \in Sent : Invoked(i) /\ MethodKey(i) = key})
    /\ \A i \in Reqs :
        /\ gpc[i] # "none" => mpc[i] \notin {"idle", "start"}
        /\ mpc[i] # "idle" =>
               i \in Sent /\ Resolvable(reqs[i].sm) /\ reqs[i].bodyOk
        /\ (mpc[i] = "done" /\ MethodAnswer(i)) => Invoked(i)

\* two requests for the same method were both invoked, one of them timed
\* out, and the counter stands at two
C8_Witness ==
    /\ numCalls[<<<<"T">>, <<"S">> >>] = 2
    /\ \E i \in Reqs : TimeoutAnswer(i)
    /\ \E i \in Reqs : MethodAnswer(i)

----------------------------------------------------------------------------
(* Server.Register *)

RegProcs == 1..MaxRegs

ErrDup == "rpc: service already defined: "

\* sync.Map.Store: the map after an unconditional store
StoreMap(m, k, v) == [x \in DOMAIN m \cup {k} |-> IF x = k THEN v ELSE m[x]]

\* sync.Map.LoadOrStore: the map afterwards, and the loaded flag
LoadOrStoreMap(m, k, v) ==
    IF k \in DOMAIN m
    THEN m
    ELSE [x \in DOMAIN m \cup {k} |-> IF x = k THEN v ELSE m[x]]
LoadOrStoreLoaded(m, k) == k \in DOMAIN m

InitRegister ==
    /\ regpc = [p \in RegProcs |-> "new"]
    /\ regRcv \in [RegProcs -> Receivers]
    /\ regRes = [p \in RegProcs |-> << >>]

IdleRegister ==
    /\ regpc = [p \in RegProcs |-> "done"]
    /\ regRcv = [p \in RegProcs |-> [typ |-> <<"T">>, inst |-> 1]]
    /\ regRes = [p \in RegProcs |-> << >>]

\* log.Fatalf in one Register call has ended the process, and with it every
\* other call
Exited == \E p \in RegProcs : regpc[p] = "fatal"

\* Register: s := newService(rcv)
RegisterNew(p) ==
    /\ ~Exited
    /\ regpc[p] = "new"
    /\ regpc' = [regpc EXCEPT ![p] =
                    IF newService(regRcv[p]) = Fatal THEN "fatal" ELSE "store"]
    /\ UNCHANGED <<notRegister, serviceMap, regRcv, regRes>>

\* Register: serviceMap.LoadOrStore(s.name, s) and the return
RegisterStore(p) ==
    /\ ~Exited
    /\ regpc[p] = "store"
    /\ LET s == newService(regRcv[p]) IN
        /\ serviceMap' = LoadOrStoreMap(serviceMap, s.name, s)
        /\ regRes' = [regRes EXCEPT ![p] =
                         IF LoadOrStoreLoaded(serviceMap, s.name)
                         THEN <<ErrDup, s.name>> ELSE << >>]
    /\ regpc' = [regpc EXCEPT ![p] = "done"]
    /\ UNCHANGED <<notRegister, regRcv>>

RegisterNext ==
    \E p \in RegProcs :
        \/ RegisterNew(p)
        \/ RegisterStore(p)

\* the Register calls for a name that have returned, and those that
\* returned nil
Returned9(n) == {p \in RegProcs : regpc[p] = "done" /\ regRcv[p].typ = n}
Winners(n) == {p \in Returned9(n) : regRes[p] = << >>}

\* C9: of the Register calls for one name that have returned, exactly one
\* returned nil, every other one returned the duplicate-service error, and
\* the map holds the Service of the one that returned nil; a name no call
\* has stored is not in the map.  A call for a receiver whose type is not
\* exported never returns and stores nothing.
C9_RegisterOnce ==
    /\ \A n \in {r.typ : r \in Receivers} :
        IF Returned9(n) = {}
        THEN n \notin DOMAIN serviceMap
        ELSE /\ Cardinality(Winners(n)) = 1
             /\ n \in DOMAIN serviceMap
             /\ \A p \in Winners(n) : serviceMap[n] = newService(regRcv[p])
             /\ \A p \in Returned9(n) \ Winners(n) :
                    regRes[p] = <<ErrDup, n>>
    /\ \A p \in RegProcs :
          ~IsExported(regRcv[p].typ) => regpc[p] \in {"new", "fatal"}

\* two Register calls with different receivers of one type have both
\* returned, the second with the error
C9_Witness ==
    \E p, q \in RegProcs :
        /\ regpc[p] = "done" /\ regpc[q] = "done"
        /\ regRcv[p].typ = regRcv[q].typ
        /\ regRcv[p].inst # regRcv[q].inst
        /\ regRes[p] = << >>
        /\ regRes[q] # << >>

----------------------------------------------------------------------------
(* registry.SimpleRegistry *)

\* addresses, as sequences of character codes
Addrs == {<<1>>, <<1, 2>>, <<2>>}

\* a < b for strings, as sort.Strings orders them
LexLess(a, b) ==
    \E k \in 1..(Len(a) + 1) :
        /\ \A j \in 1..(k - 1) : j <= Len(b) /\ a[j] = b[j]
        /\ k <= Len(b)
        /\ k <= Len(a) => a[k] < b[k]

\* the addresses in descending order
RECURSIVE SortedDescending(_)
SortedDescending(S) ==
    IF S = {} THEN << >>
    ELSE LET m == CHOOSE x \in S : \A y \in S \ {x} : LexLess(y, x)
         IN  <<m>> \o SortedDescending(S \ {m})

\* sort.Strings of the addresses collected from the map
RECURSIVE SortStrings(_)
SortStrings(S) ==
    IF S = {} THEN << >>
    ELSE LET m == CHOOSE x \in S : \A y \in S \ {x} : LexLess(x, y)
         IN  <<m>> \o SortStrings(S \ {m})

\* the liveness test of aliveServers:
\* r.timeout == 0 || s.start.Add(r.timeout).After(time.Now())
IsAliveInclusive(start, tmo, t) == tmo = 0 \/ start + tmo >= t
IsAliveNoZero(start, tmo, t) == start + tmo > t
IsAlive(start, tmo, t) == tmo = 0 \/ start + tmo > t

InitRegistry ==
    /\ timeout \in 0..MaxTimeout
    /\ servers = [a \in {} |-> 0]
    /\ now = 0
    /\ lastBeat = [a \in Addrs |-> -1]
    /\ lastOp = "none"
    /\ lastAddr = << >>
    /\ alive = << >>

IdleRegistry ==
    /\ timeout = 0
    /\ servers = [a \in {} |-> 0]
    /\ now = 0
    /\ lastBeat = [a \in Addrs |-> -1]
    /\ lastOp = "none"
    /\ lastAddr = << >>
    /\ alive = << >>

\* s.start = time.Now() on an item that exists
KeepStart(start, t) == start
RefreshStart(start, t) == t

\* what putServer(addr) does to the registry
PutEffect(addr) ==
    /\ IF addr \notin DOMAIN servers
       THEN servers' = [a \in DOMAIN servers \cup {addr} |->
                           IF a = addr THEN now ELSE servers[a]]
       ELSE servers' = [servers EXCEPT ![addr] = RefreshStart(@, now)]
    /\ lastBeat' = [lastBeat EXCEPT ![addr] = now]
    /\ lastOp' = "put"
    /\ lastAddr' = addr
    /\ UNCHANGED <<timeout, alive>>

\* putServer(addr)
putServer(addr) ==
    /\ PutEffect(addr)
    /\ UNCHANGED <<notRegistry, now>>

\* what aliveServers() does to the registry
AliveEffect ==
    LET keep == {a \in DOMAIN servers : IsAlive(servers[a], timeout, now)} IN
    /\ alive' = SortStrings(keep)
    /\ servers' = [a \in keep |-> servers[a]]
    /\ lastOp' = "alive"
    /\ UNCHANGED <<timeout, lastBeat, lastAddr>>

\* aliveServers()
aliveServers ==
    /\ AliveEffect
    /\ UNCHANGED <<notRegistry, now>>

\* time passes
Tick ==
    /\ now < MaxTime
    /\ now' = now + 1
    /\ lastOp' = "tick"
    /\ UNCHANGED <<notRegistry, timeout, servers, lastBeat, lastAddr, alive>>

RegistryNext ==
    \/ \E addr \in Addrs : putServer(addr)
    \/ aliveServers
    \/ Tick

InSeq(x, q) == \E k \in 1..Len(q) : q[k] = x

\* C10: with a timeout W > 0, right after aliveServers an address whose
\* latest heartbeat is less than W old (one just recorded in particular) is
\* in the result, and an address whose latest heartbeat is W old or older is
\* neither in the result nor in the map.
C10_HeartbeatWindow ==
    (timeout > 0 /\ lastOp = "alive") =>
        \A a \in Addrs :
            lastBeat[a] >= 0 =>
                /\ lastBeat[a] = now => InSeq(a, alive)
                /\ now - lastBeat[a] < timeout =>
                       InSeq(a, alive) /\ a \in DOMAIN servers
                /\ now - lastBeat[a] >= timeout =>
                       ~InSeq(a, alive) /\ a \notin DOMAIN servers

\* aliveServers returned an address whose heartbeat was just recorded and
\* dropped one whose latest heartbeat is exactly W old
C10_Witness ==
    /\ timeout > 0
    /\ lastOp = "alive"
    /\ \E a, b \in Addrs :
        /\ lastBeat[a] = now /\ InSeq(a, alive)
        /\ lastBeat[b] >= 0 /\ now - lastBeat[b] = timeout
        /\ ~InSeq(b, alive) /\ b \notin DOMAIN servers

\* C11: in a registry with timeout 0 every address that has sent a heartbeat
\* is in the map, whatever time has passed, and is in the result of the
\* latest aliveServers if that came after its first heartbeat.
C11_ZeroNeverExpires ==
    timeout = 0 =>
        \A a \in Addrs :
            lastBeat[a] >= 0 =>
                /\ a \in DOMAIN servers
                /\ lastOp = "alive" => InSeq(a, alive)

\* with timeout 0, aliveServers returned an address whose only heartbeat is
\* MaxTime old
C11_Witness ==
    /\ timeout = 0
    /\ lastOp = "alive"
    /\ \E a \in Addrs :
        lastBeat[a] = 0 /\ now = MaxTime /\ InSeq(a, alive)

\* a comes before b in lexicographic order: at the first position where
\* they differ a ends or has the smaller character
Precedes(a, b) ==
    LET same == {k \in 0..Len(a) :
                    k <= Len(b) /\ SubSeq(a, 1, k) = SubSeq(b, 1, k)}
        n == CHOOSE k \in same : \A j \in same : j <= k
    IN  /\ n < Len(b)
        /\ n < Len(a) => a[n + 1] < b[n + 1]

\* C18: the result of aliveServers is in strictly ascending lexicographic
\* order (so without duplicates) and holds exactly the addresses left in the
\* map; a second aliveServers directly after one returns the same sequence
\* and leaves the map as it is.
C18_SortedAndStable ==
    /\ [](\A k \in 1..(Len(alive) - 1) : Precedes(alive[k], alive[k + 1]))
    /\ [](lastOp = "alive" => {alive[k] : k \in 1..Len(alive)} = DOMAIN servers)
    /\ [][(lastOp = "alive" /\ lastOp' = "alive") =>
              (alive' = alive /\ servers' = servers)]_vars

\* aliveServers returned all three addresses
C18_Witness ==
    /\ lastOp = "alive"
    /\ Len(alive) = Cardinality(Addrs)

\* C20: every item of the map carries the time of the latest heartbeat of
\* its address; right after putServer(addr) the map has addr with the current
\* time; a putServer step neither adds, removes nor alters the item of any
\* other address, and repeated at the same time it changes nothing.
C20_PutServerUpsert ==
    /\ [](\A a \in DOMAIN servers : servers[a] = lastBeat[a])
    /\ [](lastOp = "put" =>
              lastAddr \in DOMAIN servers /\ servers[lastAddr] = now)
    /\ [][lastOp' = "put" =>
              /\ \A b \in Addrs \ {lastAddr'} :
                    /\ (b \in DOMAIN servers) = (b \in DOMAIN servers')
                    /\ b \in DOMAIN servers => servers'[b] = servers[b]
              /\ (lastAddr' \in DOMAIN servers /\ servers[lastAddr'] = now)
                     => servers' = servers]_vars

\* a heartbeat was just recorded for an address while the map holds another
\* address with an older heartbeat
C20_Witness ==
    /\ lastOp = "put"
    /\ now > 0
    /\ servers[lastAddr] = now
    /\ \E b \in DOMAIN servers : b # lastAddr /\ servers[b] < now

----------------------------------------------------------------------------
(* xclient.MultiServersDiscovery *)

RandomSelect == 0
RoundRobinSelect == 1
\* the two modes and a SelectMode value that is neither
SelectModes == {RandomSelect, RoundRobinSelect, RoundRobinSelect + 1}

ErrNoServers == <<"rpc discovery: no available servers", << >> >>
ErrBadMode == <<"rpc discovery: not supported select mode", << >> >>

\* server lists a caller passes, each address at most once; a nil slice is
\* the empty list (len 0)
ServerLists ==
    {l \in UNION {[1..n -> Addrs] : n \in 0..MaxServers} :
        \A i, j \in 1..Len(l) : i # j => l[i] # l[j]}

\* rand.Intn(n) for n > 0
Intn(n) == 0..(n - 1)

\* the test n == 0 of Get
NeverEmpty(n) == FALSE
NoServers(n) == n = 0

\* d.index % n, the position a round-robin Get reads
RawIndex(index, n) == index
RRPos(index, n) == index % n

\* d.index = (d.index + 1) % n
KeepIndex(index, n) == index
NextIndex(index, n) == (index + 1) % n

\* a slice in the caller's hands: its elements and whether it shares the
\* backing array of d.servers.  make + copy gives a fresh array.
SameSlice(list) == [alias |-> TRUE, elems |-> list]
CopyOf(list) == [alias |-> FALSE, elems |-> list]

\* what an operation leaves in dLast
Outcome(op, mode, s, err, pos, idx) ==
    [op |-> op, mode |-> mode, s |-> s, err |-> err, pos |-> pos, idx |-> idx]

\* NewMultiServerDiscovery(servers)
InitDisc ==
    /\ dServers \in ServerLists
    /\ dIndex \in 0..(MaxIndex - 1)
    /\ dIndex0 = dIndex
    /\ dHist = << >>
    /\ dUpdated = FALSE
    /\ dLast = Outcome("new", -1, << >>, Nil, -1, -1)
    /\ dRet = CopyOf(<< >>)
    /\ dCrashed = FALSE

\* no discovery in use
IdleDisc ==
    /\ dServers = << >>
    /\ dIndex = 0
    /\ dIndex0 = 0
    /\ dHist = << >>
    /\ dUpdated = FALSE
    /\ dLast = Outcome("new", -1, << >>, Nil, -1, -1)
    /\ dRet = CopyOf(<< >>)
    /\ dCrashed = FALSE

\* Refresh()
Refresh ==
    /\ ~dCrashed
    /\ dLast' = Outcome("refresh", -1, << >>, Nil, -1, -1)
    /\ UNCHANGED <<notDisc, dServers, dIndex, dIndex0, dHist, dUpdated, dRet,
                   dCrashed>>

\* Update(servers): the list is replaced, the index stays
Update(list) ==
    /\ ~dCrashed
    /\ dServers' = list
    /\ dUpdated' = TRUE
    /\ dHist' = << >>
    /\ dRet' = [dRet EXCEPT !.alias = FALSE]
    /\ dLast' = Outcome("update", -1, << >>, Nil, -1, -1)
    /\ UNCHANGED <<notDisc, dIndex, dIndex0, dCrashed>>

\* a Get that panics: rand.Intn(0), a division by zero or an index out of
\* range
GetPanics(mode) ==
    /\ dCrashed' = TRUE
    /\ dLast' = Outcome("get", mode, << >>, Nil, -1, dIndex)
    /\ UNCHANGED <<dIndex, dHist>>

\* Get(mode), under d.mu
Get(mode) ==
    /\ ~dCrashed
    /\ (mode = RoundRobinSelect /\ ~dUpdated) => Len(dHist) < MaxGets
    /\ LET n == Len(dServers) IN
       IF NoServers(n)
       THEN /\ dLast' = Outcome("get", mode, << >>, ErrNoServers, -1, dIndex)
            /\ UNCHANGED <<dIndex, dHist, dCrashed>>
       ELSE IF mode = RandomSelect
       THEN IF n <= 0
            THEN GetPanics(mode)
            ELSE \E k \in Intn(n) :
                    /\ dLast' = Outcome("get", mode, dServers[k + 1], Nil, k,
                                        dIndex)
                    /\ UNCHANGED <<dIndex, dHist, dCrashed>>
       ELSE IF mode = RoundRobinSelect
       THEN IF n = 0 \/ RRPos(dIndex, n) \notin 0..(n - 1)
            THEN GetPanics(mode)
            ELSE LET pos == RRPos(dIndex, n) IN
                 /\ dIndex' = NextIndex(dIndex, n)
                 /\ dLast' = Outcome("get", mode, dServers[pos + 1], Nil, pos,
                                     dIndex)
                 /\ dHist' = IF dUpdated THEN dHist
                             ELSE Append(dHist, [pos |-> pos,
                                                 s |-> dServers[pos + 1]])
                 /\ UNCHANGED dCrashed
       ELSE /\ dLast' = Outcome("get", mode, << >>, ErrBadMode, -1, dIndex)
            /\ UNCHANGED <<dIndex, dHist, dCrashed>>
    /\ UNCHANGED <<notDisc, dServers, dIndex0, dUpdated, dRet>>

\* GetAll(), under d.mu
GetAll ==
    /\ ~dCrashed
    /\ dRet' = CopyOf(dServers)
    /\ dLast' = Outcome("getall", -1, << >>, Nil, -1, -1)
    /\ UNCHANGED <<notDisc, dServers, dIndex, dIndex0, dHist, dUpdated,
                   dCrashed>>

\* the caller assigns element k of the slice GetAll returned
MutateRet(k, a) ==
    /\ ~dCrashed
    /\ k \in 1..Len(dRet.elems)
    /\ dRet.elems[k] # a
    /\ dRet' = [dRet EXCEPT !.elems[k] = a]
    /\ IF dRet.alias
       THEN dServers' = [dServers EXCEPT ![k] = a]
       ELSE UNCHANGED dServers
    /\ dLast' = Outcome("mutate", -1, << >>, Nil, -1, -1)
    /\ UNCHANGED <<notDisc, dIndex, dIndex0, dHist, dUpdated, dCrashed>>

DiscNext ==
    \/ Refresh
    \/ \E list \in ServerLists : Update(list)
    \/ \E mode \in SelectModes : Get(mode)
    \/ GetAll
    \/ \E k \in 1..MaxServers, a \in Addrs : MutateRet(k, a)

\* C14: while the list has not been updated since construction, the k-th
\* round-robin Get returned the element at position (initial index + k - 1)
\* mod K of the list of K elements, so any K consecutive round-robin Gets
\* returned every position once, whatever random Gets came in between.
C14_RoundRobinCycle ==
    (~dUpdated /\ ~dCrashed) =>
        LET K == Len(dServers) IN
        /\ \A k \in 1..Len(dHist) :
              /\ dHist[k].pos = (dIndex0 + k - 1) % K
              /\ dHist[k].s = dServers[((dIndex0 + k - 1) % K) + 1]
        /\ \A j \in 0..(Len(dHist) - K) :
              {dHist[j + m].pos : m \in 1..K} = 0..(K - 1)
        /\ \A j \in 0..(Len(dHist) - K) :
              Cardinality({dServers[x] : x \in 1..K}) = K =>
                  \A a \in {dServers[x] : x \in 1..K} :
                      Cardinality({m \in 1..K : dHist[j + m].s = a}) = 1

\* five round-robin Gets went round a list of three different addresses,
\* starting from an index beyond the list, with a random Get as the latest
\* operation
C14_Witness ==
    /\ ~dUpdated
    /\ Len(dServers) = 3
    /\ Cardinality({dServers[x] : x \in 1..3}) = 3
    /\ dIndex0 >= 3
    /\ Len(dHist) = 5
    /\ dLast.op = "get" /\ dLast.mode = RandomSelect

\* C15: a round-robin Get on a non-empty list does not panic, reads a
\* position from 0 to length - 1 and returns the element at that position of
\* the current list.
C15_RoundRobinInBounds ==
    (dLast.op = "get" /\ dLast.mode = RoundRobinSelect /\ Len(dServers) > 0) =>
        /\ ~dCrashed
        /\ dLast.err = Nil
        /\ dLast.pos \in 0..(Len(dServers) - 1)
        /\ dLast.s = dServers[dLast.pos + 1]

\* a round-robin Get found the index beyond the end of a list that Update
\* had shortened
C15_Witness ==
    /\ dLast.op = "get"
    /\ dLast.mode = RoundRobinSelect
    /\ dUpdated
    /\ Len(dServers) > 0
    /\ dLast.idx >= Len(dServers)
    /\ dLast.err = Nil

\* C16: a Get in either mode on an empty list returns the error "no
\* available servers" and no address, does not panic, and leaves list and
\* index as they were.
C16_EmptyListError ==
    /\ [](\A mode \in {RandomSelect, RoundRobinSelect} :
            (dLast.op = "get" /\ dLast.mode = mode /\ dServers = << >>) =>
                /\ dLast.err = ErrNoServers
                /\ dLast.s = << >>
                /\ ~dCrashed)
    /\ [][(dLast'.op = "get" /\ dServers = << >>) =>
              (dServers' = dServers /\ dIndex' = dIndex)]_vars

\* a round-robin Get returned the error on a list that Update had emptied
C16_Witness ==
    /\ dLast.op = "get"
    /\ dLast.mode = RoundRobinSelect
    /\ dLast.err = ErrNoServers
    /\ dServers = << >>
    /\ dUpdated
    /\ dIndex > 0

\* the error was returned to a random Get on a discovery constructed empty
C16_WitnessRandom ==
    /\ dLast.op = "get"
    /\ dLast.mode = RandomSelect
    /\ dLast.err = ErrNoServers
    /\ dServers = << >>
    /\ ~dUpdated

\* C17: GetAll returns the elements of the list in order, without error;
\* a write to the returned slice changes neither the list nor the index, so
\* no later Get or GetAll sees it.
C17_GetAllCopies ==
    /\ [](dLast.op = "getall" => (dRet.elems = dServers /\ dLast.err = Nil))
    /\ [][dLast'.op = "mutate" =>
              (dServers' = dServers /\ dIndex' = dIndex)]_vars

\* the caller changed the slice GetAll returned, which now differs from the
\* list
C17_Witness ==
    /\ dLast.op = "mutate"
    /\ dServers # << >>
    /\ Len(dRet.elems) = Len(dServers)
    /\ dRet.elems # dServers

----------------------------------------------------------------------------
(* registry.Heartbeat and sendHeartbeat; the clock counts minutes *)

\* const defaultTimeout = time.Minute * 5
defaultTimeout == 5

\* the expiry windows of the registries a server reports to, the default
\* registry's among them
HbTimeouts == 0..(defaultTimeout + 1)

\* the address the server reports
HbAddr == <<1>>

\* the duration Heartbeat goes on with
HeartbeatPeriod(duration) ==
    IF duration = 0 THEN defaultTimeout - 1 ELSE duration

\* the goroutine's loop condition, for err == nil
AlwaysContinue(err) == TRUE
LoopContinues(err) == ~err

\* how httpClient.Do of sendHeartbeat can return: with the registry's
\* response; with an error while the request is lost; with an error while
\* the request is on its way or handled.  The client has no Timeout, so a
\* Do may also never return.
SendOutcomes == {"ok", "lost", "failed"}

\* New(timeout), the registry the server reports to
InitHbRegistry ==
    /\ timeout \in HbTimeouts
    /\ servers = [a \in {} |-> 0]
    /\ now = 0
    /\ lastBeat = [a \in Addrs |-> -1]
    /\ lastOp = "none"
    /\ lastAddr = << >>
    /\ alive = << >>

\* the registry strings a server calls Heartbeat with: a URL, a string
\* without scheme before its colon, and a host whose bracket is not closed
HbRegistries ==
    {<<"h", "t", "t", "p", ":", "/", "/", "r">>,
     <<":">>,
     <<"h", "t", "t", "p", ":", "/", "/", "[", ":", ":", "1">>}

\* whether http.NewRequest("POST", registry, nil) returns a request: url.Parse
\* rejects a string that starts with its colon (missing protocol scheme) and
\* a host that opens a bracket without closing it; its other rejections
\* (control characters, bad escapes, bad ports) are not among the strings here
NewRequestOk(registry) ==
    /\ ~(registry # << >> /\ registry[1] = ":")
    /\ \A k \in 1..Len(registry) :
          registry[k] = "[" =>
              \E j \in (k + 1)..Len(registry) : registry[j] = "]"

\* Heartbeat has not been called
IdleHb ==
    /\ hbpc = "new"
    /\ hbGiven = 0
    /\ hbDur = 0
    /\ hbErr = FALSE
    /\ hbFailed = FALSE
    /\ hbDue = 0
    /\ hbSends = 0
    /\ hbReq = "none"
    /\ hbTick = FALSE
    /\ hbReg = << >>

\* Heartbeat(registry, addr, duration): the default is applied
Heartbeat(registry, duration) ==
    /\ hbpc = "new"
    /\ hbReg' = registry
    /\ hbGiven' = duration
    /\ hbDur' = HeartbeatPeriod(duration)
    /\ hbpc' = "first"
    /\ UNCHANGED <<notHb, registryVars, hbErr, hbFailed, hbDue, hbSends, hbReq,
                   hbTick>>

\* the first sendHeartbeat, up to httpClient.Do(req): the POST is on its
\* way.  The error of http.NewRequest is dropped, so for a registry string
\* it rejects req is nil and req.Header.Set panics in Heartbeat's caller
SendFirst ==
    /\ hbpc = "first"
    /\ hbSends' = hbSends + 1
    /\ IF NewRequestOk(hbReg)
       THEN hbReq' = "sent" /\ hbpc' = "firstSend"
       ELSE hbReq' = hbReq /\ hbpc' = "panic"
    /\ UNCHANGED <<notHb, hbReg, registryVars, hbGiven, hbDur, hbErr, hbFailed,
                   hbDue, hbTick>>

\* the registry's ServeHTTP gets the POST: putServer(addr)
RegistryPost ==
    /\ hbReq = "sent"
    /\ PutEffect(HbAddr)
    /\ hbReq' = "handled"
    /\ UNCHANGED <<notHb, hbReg, now, hbpc, hbGiven, hbDur, hbErr, hbFailed, hbDue,
                   hbSends, hbTick>>

\* httpClient.Do returns and sendHeartbeat with it: nil after the registry's
\* response, else the error; err is assigned.  After the first send
\* Heartbeat starts its goroutine and returns
DoReturns(o) ==
    /\ hbpc \in {"firstSend", "loopSend"}
    /\ o = "ok" => hbReq = "handled"
    /\ o = "lost" => hbReq = "sent"
    /\ hbReq' = IF o = "failed" /\ hbReq = "sent" THEN "sent" ELSE "none"
    /\ hbErr' = (o # "ok")
    /\ hbFailed' = (hbFailed \/ o # "ok")
    /\ hbpc' = IF hbpc = "firstSend" THEN "spawned" ELSE "loop"
    /\ UNCHANGED <<notHb, hbReg, registryVars, hbGiven, hbDur, hbDue, hbSends, hbTick>>

\* the goroutine starts: t := time.NewTicker(duration), the first tick is
\* due one period from now
GoStart ==
    /\ hbpc = "spawned"
    /\ hbDue' = now + hbDur
    /\ hbpc' = "loop"
    /\ UNCHANGED <<notHb, hbReg, registryVars, hbGiven, hbDur, hbErr, hbFailed, hbSends,
                   hbReq, hbTick>>

\* the ticker fires, at its time or later: a tick goes into t.C, whose
\* buffer holds one (a tick that finds it full is dropped), and the next is
\* due a period after this one was.  The ticker of a goroutine that has
\* ended is no longer looked at.
TickerFire ==
    /\ hbpc \in {"loop", "loopSend"}
    /\ now >= hbDue
    /\ hbTick' = TRUE
    /\ hbDue' = hbDue + hbDur
    /\ UNCHANGED <<notHb, hbReg, registryVars, hbpc, hbGiven, hbDur, hbErr, hbFailed,
                   hbSends, hbReq>>

\* for err == nil: <-t.C takes the tick, then sendHeartbeat up to
\* httpClient.Do(req)
LoopSend ==
    /\ hbpc = "loop"
    /\ LoopContinues(hbErr)
    /\ hbTick
    /\ hbTick' = FALSE
    /\ hbSends' = hbSends + 1
    /\ hbReq' = "sent"
    /\ hbpc' = "loopSend"
    /\ UNCHANGED <<notHb, hbReg, registryVars, hbGiven, hbDur, hbErr, hbFailed, hbDue>>

\* the loop condition fails and the goroutine ends
LoopExit ==
    /\ hbpc = "loop"
    /\ ~LoopContinues(hbErr)
    /\ hbpc' = "stopped"
    /\ UNCHANGED <<notHb, hbReg, registryVars, hbGiven, hbDur, hbErr, hbFailed, hbDue,
                   hbSends, hbReq, hbTick>>

\* a client asks the registry for the servers alive
HbAlive ==
    /\ AliveEffect
    /\ UNCHANGED <<notHb, now, hbVars>>

\* a minute passes
HbTick ==
    /\ now < MaxHbTime
    /\ now' = now + 1
    /\ lastOp' = "tick"
    /\ UNCHANGED <<notHb, timeout, servers, lastBeat, lastAddr, alive, hbVars>>

HeartbeatNext ==
    \/ \E registry \in HbRegistries, duration \in 0..MaxDuration :
          Heartbeat(registry, duration)
    \/ SendFirst
    \/ RegistryPost
    \/ \E o \in SendOutcomes : DoReturns(o)
    \/ GoStart
    \/ TickerFire
    \/ LoopSend
    \/ LoopExit
    \/ HbAlive
    \/ HbTick

\* C12: for a registry with expiry window W > 0, a Heartbeat called without
\* a period sends every W - 1 minutes, which is less than W; and while no
\* send has failed, the address is in every result of aliveServers after the
\* first heartbeat has reached the registry.
C12_PeriodInsideWindow ==
    (timeout > 0 /\ hbGiven = 0 /\ hbpc # "new") =>
        /\ hbDur = timeout - 1
        /\ hbDur < timeout
        /\ (lastBeat[HbAddr] >= 0 /\ ~hbFailed /\ lastOp = "alive") =>
               InSeq(HbAddr, alive)

\* C13: no failure of a send is raised to Heartbeat's caller; after a
\* sendHeartbeat has failed, the first or a periodic one, no further
\* heartbeat is sent, and all that can still reach the registry is the POST
\* of the failed send if it was on its way; Heartbeat has returned to its
\* caller as after a success, and only the goroutine's start and exit are
\* left to happen.
C13_FailedSendStopsLoop ==
    /\ [](hbpc # "panic")
    /\ [](hbFailed => (hbErr /\ hbpc \in {"spawned", "loop", "stopped"}))
    /\ [][hbFailed =>
              (/\ hbSends' = hbSends
               /\ hbReq' # hbReq => hbReq = "sent" /\ hbReq' = "handled"
               /\ hbFailed'
               /\ hbpc' # hbpc =>
                      \/ hbpc = "spawned" /\ hbpc' = "loop"
                      \/ hbpc' = "stopped")]_vars

\* what holds of C13: once a sendHeartbeat has returned an error no further
\* one is called and the goroutine can only start and end
C13_ReturnedErrorStopsLoop ==
    /\ [](hbFailed => (hbErr /\ hbpc \in {"spawned", "loop", "stopped"}))
    /\ [][hbFailed =>
              (/\ hbSends' = hbSends
               /\ hbFailed'
               /\ hbpc' # hbpc =>
                      \/ hbpc = "spawned" /\ hbpc' = "loop"
                      \/ hbpc' = "stopped")]_vars

\* a periodic send failed, the loop ended, and the time of the next tick
\* has passed without a heartbeat
C13_Witness ==
    /\ hbFailed
    /\ hbSends = 2
    /\ hbpc = "stopped"
    /\ now > hbDue

\* the first send failed and the time of the first tick has passed
C13_WitnessFirst ==
    /\ hbFailed
    /\ hbSends = 1
    /\ hbpc = "stopped"
    /\ now > hbDue

----------------------------------------------------------------------------
(* MultiServersDiscovery.Get in round-robin mode, called concurrently *)

Getters == 1..MaxGetters

\* d.mu.Lock() returns only when nobody holds d.mu
DLockNoWait(owner) == TRUE
DCanLock(owner) == owner = 0

\* nobody has called Get
IdleGet ==
    /\ cMu = 0
    /\ cpc = [p \in Getters |-> "call"]
    /\ cN = [p \in Getters |-> 0]
    /\ cPos = [p \in Getters |-> -1]
    /\ cS = [p \in Getters |-> << >>]
    /\ cErr = [p \in Getters |-> Nil]
    /\ cTmp = [p \in Getters |-> 0]

\* d.mu.Lock()
CLock(p) ==
    /\ cpc[p] = "call"
    /\ DCanLock(cMu)
    /\ cMu' = p
    /\ cpc' = [cpc EXCEPT ![p] = "len"]
    /\ UNCHANGED <<notGet, discVars, cN, cPos, cS, cErr, cTmp>>

\* n := len(d.servers); if n == 0 return the error
CLen(p) ==
    /\ cpc[p] = "len"
    /\ IF NoServers(Len(dServers))
       THEN /\ cErr' = [cErr EXCEPT ![p] = ErrNoServers]
            /\ cpc' = [cpc EXCEPT ![p] = "unlock"]
            /\ UNCHANGED cN
       ELSE /\ cN' = [cN EXCEPT ![p] = Len(dServers)]
            /\ cpc' = [cpc EXCEPT ![p] = "read"]
            /\ UNCHANGED cErr
    /\ UNCHANGED <<notGet, discVars, cMu, cPos, cS, cTmp>>

\* s := d.servers[d.index%n]; an index beyond the slice panics
CRead(p) ==
    /\ cpc[p] = "read"
    /\ LET pos == RRPos(dIndex, cN[p]) IN
       IF pos \in 0..(Len(dServers) - 1)
       THEN /\ cPos' = [cPos EXCEPT ![p] = pos]
            /\ cS' = [cS EXCEPT ![p] = dServers[pos + 1]]
            /\ cpc' = [cpc EXCEPT ![p] = "load"]
       ELSE /\ cpc' = [cpc EXCEPT ![p] = "panic"]
            /\ UNCHANGED <<cPos, cS>>
    /\ UNCHANGED <<notGet, discVars, cMu, cN, cErr, cTmp>>

\* d.index = (d.index + 1) % n: d.index is loaded
CLoad(p) ==
    /\ cpc[p] = "load"
    /\ cTmp' = [cTmp EXCEPT ![p] = dIndex]
    /\ cpc' = [cpc EXCEPT ![p] = "store"]
    /\ UNCHANGED <<notGet, discVars, cMu, cN, cPos, cS, cErr>>

\* d.index = (d.index + 1) % n: the new value is stored
CStore(p) ==
    /\ cpc[p] = "store"
    /\ dIndex' = NextIndex(cTmp[p], cN[p])
    /\ cpc' = [cpc EXCEPT ![p] = "unlock"]
    /\ UNCHANGED <<notGet, dServers, dIndex0, dHist, dUpdated, dLast, dRet,
                   dCrashed, cMu, cN, cPos, cS, cErr, cTmp>>

\* the deferred d.mu.Unlock(); Get returns s and the error, its locals are
\* gone
CUnlock(p) ==
    /\ cpc[p] = "unlock"
    /\ cMu' = IF cMu = p THEN 0 ELSE cMu
    /\ cpc' = [cpc EXCEPT ![p] = "done"]
    /\ cN' = [cN EXCEPT ![p] = 0]
    /\ cTmp' = [cTmp EXCEPT ![p] = 0]
    /\ UNCHANGED <<notGet, discVars, cPos, cS, cErr>>

\* Update(servers), once, by another caller: d.mu.Lock();
\* d.servers = servers; d.mu.Unlock()
CUpdate(list) ==
    /\ ~dUpdated
    /\ DCanLock(cMu)
    /\ list # dServers
    /\ dServers' = list
    /\ dUpdated' = TRUE
    /\ UNCHANGED <<notGet, dIndex, dIndex0, dHist, dLast, dRet, dCrashed,
                   getVars>>

ConcGetNext ==
    \/ \E p \in Getters :
        \/ CLock(p)
        \/ CLen(p)
        \/ CRead(p)
        \/ CLoad(p)
        \/ CStore(p)
        \/ CUnlock(p)
    \/ \E list \in ServerLists : CUpdate(list)

\* callers whose Get has read an address and advanced the index
Advanced == {p \in Getters : cpc[p] \in {"unlock", "done"} /\ cErr[p] = Nil}

\* C23: at most one caller is between Lock and Unlock and none panics; on a
\* list of K > 0 addresses that was never updated, after c Gets have
\* advanced the index it is (initial index + c) mod K, and the positions
\* they read are, with multiplicity, those of c Gets one after the other;
\* right after a Get has stored the index it is below the length of the list.
C23_GetIsAtomic ==
    /\ Cardinality({p \in Getters :
                       cpc[p] \in {"len", "read", "load", "store", "unlock"}})
           <= 1
    /\ \A p \in Getters : cpc[p] # "panic"
    /\ \A p \in Getters :
          (cpc[p] = "unlock" /\ cErr[p] = Nil) =>
              dIndex \in 0..(Len(dServers) - 1)
    /\ (~dUpdated /\ Len(dServers) > 0) =>
          LET K == Len(dServers)
              c == Cardinality(Advanced)
          IN  /\ dIndex = IF c = 0 THEN dIndex0 ELSE (dIndex0 + c) % K
              /\ \A j \in 0..(K - 1) :
                    Cardinality({p \in Advanced : cPos[p] = j}) =
                    Cardinality({k \in 1..c : (dIndex0 + k - 1) % K = j})
              /\ \A p \in Advanced : cS[p] = dServers[cPos[p] + 1]

\* every caller has returned from a Get on a list of two addresses that was
\* never updated, so one address was returned at least twice
C23_Witness ==
    /\ ~dUpdated
    /\ Len(dServers) = 2
    /\ \A p \in Getters : cpc[p] = "done" /\ cErr[p] = Nil
    /\ \E p, q \in Getters : p # q /\ cS[p] = cS[q]

----------------------------------------------------------------------------
(* Specifications *)

Init ==
    /\ InitConn
    /\ serviceMap = ServedMap
    /\ IdleRegister
    /\ IdleRegistry
    /\ IdleDisc
    /\ IdleHb
    /\ IdleGet

Next == ConnNext

Spec == Init /\ [][Next]_vars

\* the same server and connection engine, on the requests of TextStreams
InitTexts ==
    /\ InitConnTexts
    /\ serviceMap = ServedMap
    /\ IdleRegister
    /\ IdleRegistry
    /\ IdleDisc
    /\ IdleHb
    /\ IdleGet

SpecTexts == InitTexts /\ [][Next]_vars

\* a step of the server that neither waits for the client nor is the
\* return of a method: the read loop writing under the mutex it holds,
\* wg.Wait returning, and every step of a handleRequest and its goroutine
\* but the return of the method
ServerStep ==
    \/ LoopWriteHeader
    \/ LoopWriteBody
    \/ Drain
    \/ \E i \in Reqs :
        \/ HandleRequest(i)
        \/ CallStart(i)
        \/ TimerFire(i)
        \/ SelectTimeout(i)
        \/ SendCalled(i)
        \/ MainLock(i)
        \/ MainWriteHeader(i)
        \/ MainWriteBody(i)
        \/ GoLock(i)
        \/ GoWriteHeader(i)
        \/ GoWriteBody(i)
        \/ SendSent(i)

\* the scheduler does not stop while such a step is possible: timers fire,
\* a select with a ready case proceeds, a free mutex is acquired and a held
\* one released, channel partners meet, wg.Wait returns.  Nothing obliges a
\* method to return or the client to send.
Fairness == WF_vars(ServerStep)

FairSpec == Spec /\ Fairness

\* concurrent Register calls on a fresh Server
InitReg ==
    /\ IdleConn
    /\ serviceMap = [n \in {} |-> 0]
    /\ InitRegister
    /\ IdleRegistry
    /\ IdleDisc
    /\ IdleHb
    /\ IdleGet

SpecRegister == InitReg /\ [][RegisterNext]_vars

\* a registry under heartbeats, liveness queries and the passage of time
InitRgy ==
    /\ IdleConn
    /\ serviceMap = [n \in {} |-> 0]
    /\ IdleRegister
    /\ InitRegistry
    /\ IdleDisc
    /\ IdleHb
    /\ IdleGet

SpecRegistry == InitRgy /\ [][RegistryNext]_vars

\* a discovery under Gets, Updates, GetAlls and its caller's writes
InitDiscovery ==
    /\ IdleConn
    /\ serviceMap = [n \in {} |-> 0]
    /\ IdleRegister
    /\ IdleRegistry
    /\ InitDisc
    /\ IdleHb
    /\ IdleGet

SpecDiscovery == InitDiscovery /\ [][DiscNext]_vars

\* a server that calls Heartbeat once, its registry New(timeout), clients
\* that query the registry, and the clock
InitHeartbeat ==
    /\ IdleConn
    /\ serviceMap = [n \in {} |-> 0]
    /\ IdleRegister
    /\ InitHbRegistry
    /\ IdleDisc
    /\ IdleHb
    /\ IdleGet

SpecHeartbeat == InitHeartbeat /\ [][HeartbeatNext]_vars

\* a discovery whose Get is called by several goroutines at once, and
\* Update by another
InitConcGet ==
    /\ IdleConn
    /\ serviceMap = [n \in {} |-> 0]
    /\ IdleRegister
    /\ IdleRegistry
    /\ InitDisc
    /\ IdleHb
    /\ IdleGet

SpecConcGet == InitConcGet /\ [][ConcGetNext]_vars

====
